---- MODULE Spec2Model ----
(***************************************************************************)
(* State-machine model of the time tracker in src/app.py: the SQLite       *)
(* tables (registros, tags, registro_tags, config), the wall clock, and    *)
(* one action per HTTP request handled by TimeTrackerHandler.  Requests    *)
(* are processed one at a time (HTTPServer is single-threaded), so every   *)
(* action is a whole handler.                                              *)
(*                                                                         *)
(* Instants are integers counted in ticks of 1/TicksPerSec second since    *)
(* midnight of day 0; a stored ISO text is represented by the instant it   *)
(* denotes.  SQL NULL / Python None is the empty tuple, a present value x  *)
(* is the one-element tuple <<x>>.                                         *)
(***************************************************************************)
EXTENDS Integers, Sequences, FiniteSets, TLC

\* ------------------------------------------------------------------ bounds
\* sub-second resolution of the modelled clock (datetime has microseconds)
TicksPerSec == 2
\* the clock is explored from 0 to MaxNow ticks
MaxNow == 3
\* at most this many rows are ever inserted into registros
MaxRegistros == 2
\* at most this many rows are ever inserted into tags
MaxTags == 3

\* ------------------------------------------------------- values and helpers
NULL == <<>>

Some(x) == <<x>>

Val(o) == o[1]

SecsPerDay == 86400

TicksPerDay == SecsPerDay * TicksPerSec

\* datetime.date() of an instant, as a day number
DateOf(t) == t \div TicksPerDay

\* the difference taken in clock units instead of seconds
TotalSecondsInt_Ticks(ticks) == ticks

\* int(timedelta.total_seconds()): whole seconds, truncated towards zero
TotalSecondsInt(ticks) ==
  IF ticks >= 0 THEN ticks \div TicksPerSec ELSE -((-ticks) \div TicksPerSec)

\* timedelta(seconds=s) in ticks
Seconds(s) == s * TicksPerSec

\* datetime.fromisoformat of a form text: <<>> is the empty text,
\* <<FALSE, 0>> a text that is not an ISO date-time, <<TRUE, t>> the ISO
\* text of instant t.  A ValueError leaves None.
fromisoformat(s) == IF s # <<>> /\ s[1] THEN Some(s[2]) ELSE NULL

\* the set of elements of a sequence
Range(s) == {s[i] : i \in DOMAIN s}

VARIABLES
  registros,       \* table registros: id -> row
  seqRegistros,    \* AUTOINCREMENT counter of registros
  tags,            \* table tags: id -> row
  seqTags,         \* AUTOINCREMENT counter of tags
  registro_tags,   \* table registro_tags: set of <<registro_id, tag_id>>
  config,          \* table config: clave -> valor
  now,             \* the wall clock, in ticks
  req,             \* the request handled last
  resp             \* the response sent last

vars == <<registros, seqRegistros, tags, seqTags, registro_tags, config, now, req, resp>>

db == <<registros, seqRegistros, tags, seqTags, registro_tags, config>>

\* ------------------------------------------------------------ form inputs
\* the tag-id lists a request may carry in its `tags` fields
TagsIn == {<<>>, <<1>>, <<2, 1, 2>>}

\* the start forms explored; `descripcion` is a text, as a character sequence
StartIn ==
  [tags : {<<>>, <<1>>}, descripcion : {<<" ">>}]
  \cup [tags : {<<2, 1, 2>>}, descripcion : {<<"n", " ">>}]

\* str.strip(): drop leading and trailing blanks
RECURSIVE LStrip(_)
LStrip(s) == IF s # <<>> /\ Head(s) = " " THEN LStrip(Tail(s)) ELSE s

RECURSIVE RStrip(_)
RStrip(s) ==
  IF s # <<>> /\ s[Len(s)] = " " THEN RStrip(SubSeq(s, 1, Len(s) - 1)) ELSE s

Strip(s) == RStrip(LStrip(s))

\* get_val('descripcion').strip() or None
Descripcion(text) == IF Strip(text) = <<>> THEN NULL ELSE Some(Strip(text))

\* ---------------------------------------------------------- storage layer
\* the default row written over the stored one (INSERT OR REPLACE)
inicializar_db_Reemplaza(cfg) == [clave \in DOMAIN cfg \cup {"horas_max_diarias"} |-> 450]

\* inicializar_db: CREATE TABLE IF NOT EXISTS leaves existing tables alone;
\* INSERT OR IGNORE adds the default config row only when it is absent
inicializar_db(cfg) ==
  IF "horas_max_diarias" \in DOMAIN cfg
    THEN cfg
    ELSE cfg @@ ("horas_max_diarias" :> 450)

\* the query without its `manual = 0` condition
Activos_FinNulo(regs) == {i \in DOMAIN regs : regs[i].fin = NULL}

\* the query without its `fin IS NULL` condition
Activos_SinFin(regs) == {i \in DOMAIN regs : regs[i].manual = 0}

\* the query asking for manual = 1 instead of manual = 0
Activos_Manual(regs) == {i \in DOMAIN regs : regs[i].fin = NULL /\ regs[i].manual = 1}

\* ids of the rows a running timer is made of: fin IS NULL AND manual = 0
Activos(regs) == {i \in DOMAIN regs : regs[i].fin = NULL /\ regs[i].manual = 0}

Max(S) == CHOOSE x \in S : \A y \in S : y <= x

\* obtener_registro_activo: ... ORDER BY id DESC LIMIT 1, None when no row
obtener_registro_activo(regs) ==
  IF Activos(regs) = {} THEN NULL ELSE Some(Max(Activos(regs)))

\* INSERT INTO registros: the new row gets the next AUTOINCREMENT id
InsertRegistro(regs, seq, row) == regs @@ ((seq + 1) :> row)

\* the id's associations deleted and none inserted
asignar_tags_a_registro_SoloBorra(rt, registro_id, tag_ids) ==
  {p \in rt : p[1] # registro_id}

\* asignar_tags_a_registro: delete the id's associations, then
\* INSERT OR IGNORE one per listed tag id (foreign keys are not enforced:
\* obtener_conexion never issues PRAGMA foreign_keys = ON)
asignar_tags_a_registro(rt, registro_id, tag_ids) ==
  {p \in rt : p[1] # registro_id} \cup {<<registro_id, tid>> : tid \in Range(tag_ids)}

\* redirect_with_message: 303 to location; message and type travel in the
\* query string only when the message is not empty
redirect_with_message(location, message, msg_type) ==
  [status |-> 303, location |-> location, message |-> message,
   type |-> IF message # "" THEN msg_type ELSE ""]

\* the check left out
SinTags_Nunca(tags_ids) == FALSE

\* `if not tags_ids` (lines 286, 330, 391): the request selects no tag
SinTags(tags_ids) == tags_ids = <<>>

\* the count taken over the wrong column
ContarUsos_PorRegistro(rt, tag_id) == Cardinality({p \in rt : p[1] = tag_id})

\* SELECT COUNT(*) FROM registro_tags WHERE tag_id = ? (line 530)
ContarUsos(rt, tag_id) == Cardinality({p \in rt : p[2] = tag_id})

\* the check written as in the cancellation branch (line 399)
DuracionRechazada_Cero(duracion) == duracion = 0

\* `if duracion <= 0` (line 369): the manual entry is refused
DuracionRechazada(duracion) == duracion <= 0

\* ------------------------------------------------------------------- Init
Init ==
  /\ registros = <<>>
  /\ seqRegistros = 0
  /\ tags = <<>>
  /\ seqTags = 0
  /\ registro_tags = {}
  /\ config = inicializar_db(<<>>)
  /\ now = 0
  /\ req = [op |-> "none"]
  /\ resp = [status |-> 0, location |-> "", message |-> "", type |-> ""]

\* ------------------------------------------------------------ POST / start
PostStart(f) ==
  LET tags_ids == f.tags
      descripcion == Descripcion(f.descripcion)
      reg_activo == obtener_registro_activo(registros)
  IN
  /\ req' = [op |-> "start", tags |-> tags_ids]
  /\ config' = inicializar_db(config)
  /\ UNCHANGED <<tags, seqTags, now>>
  /\ IF SinTags(tags_ids)
       THEN /\ resp' = redirect_with_message("/", "Debes indicar al menos un tag.", "warning")
            /\ UNCHANGED <<registros, seqRegistros, registro_tags>>
       ELSE IF reg_activo # NULL
         THEN /\ resp' = redirect_with_message("/",
                   "Ya hay un cronometro en curso. Detenlo antes de iniciar uno nuevo.", "warning")
              /\ UNCHANGED <<registros, seqRegistros, registro_tags>>
         ELSE /\ seqRegistros < MaxRegistros
              /\ registros' = InsertRegistro(registros, seqRegistros,
                   [fecha |-> DateOf(now), inicio |-> Some(now), fin |-> NULL,
                    duracion |-> 0, descripcion |-> descripcion, manual |-> 0])
              /\ seqRegistros' = seqRegistros + 1
              /\ registro_tags' = asignar_tags_a_registro(registro_tags, seqRegistros + 1, tags_ids)
              /\ resp' = redirect_with_message("/", "Cronometro iniciado.", "success")

\* ------------------------------------------------------------- POST / stop
PostStop ==
  LET reg_activo == obtener_registro_activo(registros)
  IN
  /\ req' = [op |-> "stop"]
  /\ config' = inicializar_db(config)
  /\ UNCHANGED <<tags, seqTags, now, seqRegistros, registro_tags>>
  /\ IF reg_activo = NULL
       THEN /\ resp' = redirect_with_message("/", "No hay un cronometro en curso.", "warning")
            /\ UNCHANGED registros
       ELSE LET id == Val(reg_activo)
                inicio == Val(registros[id].inicio)
                duracion == TotalSecondsInt(now - inicio)
            IN /\ registros' = [registros EXCEPT ![id].fin = Some(now),
                                                 ![id].duracion = duracion]
               /\ resp' = redirect_with_message("/", "Cronometro detenido.", "success")

\* ----------------------------------------------------------- POST / manual
\* the instant the manual-entry form inputs are written around
ManualT0 == Seconds(3600)

\* texts of inicio_manual: empty, not a date-time, an ISO date-time
InicioIn == {<<>>, <<FALSE, 0>>, <<TRUE, ManualT0>>}

\* texts of fin_manual: empty, not a date-time, equal to the start, less
\* than a second after it, a second and a half after it
FinIn == {<<>>, <<FALSE, 0>>, <<TRUE, ManualT0>>, <<TRUE, ManualT0 + 1>>,
          <<TRUE, ManualT0 + Seconds(1) + 1>>}

\* texts of duracion_horas / duracion_minutos: <<>> the empty text,
\* <<FALSE, 0>> a text that is no integer, <<TRUE, n>> the text of n
HorasIn == {<<>>, <<TRUE, 1>>}

MinutosIn == {<<TRUE, -60>>, <<TRUE, 30>>, <<FALSE, 0>>}

\* the manual-entry forms explored: the fields after a failed check are not
\* read by the handler, so they are varied only where they are read
ManualIn ==
  [tags : {<<>>}, inicio : {<<TRUE, ManualT0>>}, fin : {<<>>},
   horas : {<<TRUE, 1>>}, minutos : {<<TRUE, 30>>}, descripcion : {<<" ">>}]
  \cup
  [tags : {<<1>>}, inicio : InicioIn \ {<<TRUE, ManualT0>>}, fin : {<<>>},
   horas : {<<TRUE, 1>>}, minutos : {<<TRUE, 30>>}, descripcion : {<<" ">>}]
  \cup
  [tags : {<<1>>}, inicio : {<<TRUE, ManualT0>>}, fin : FinIn,
   horas : HorasIn, minutos : MinutosIn, descripcion : {<<" ">>}]
  \cup
  [tags : {<<2, 1, 2>>}, inicio : {<<TRUE, ManualT0>>}, fin : {<<>>},
   horas : {<<TRUE, 1>>}, minutos : {<<TRUE, 30>>}, descripcion : {<<"n", " ">>}]

\* the minutes counted as seconds
DuracionCampos_SinMinutos(horas_d, minutos_d) ==
  LET ok(f) == f = <<>> \/ f[1]
      int(f) == IF f = <<>> THEN 0 ELSE f[2]
      horas_int == IF ok(horas_d) /\ ok(minutos_d) THEN int(horas_d) ELSE 0
      minutos_int == IF ok(horas_d) /\ ok(minutos_d) THEN int(minutos_d) ELSE 0
  IN horas_int * 3600 + minutos_int

\* int(text or '0') of both duration fields; a ValueError in either one
\* sets both to 0
DuracionCampos(horas_d, minutos_d) ==
  LET ok(f) == f = <<>> \/ f[1]
      int(f) == IF f = <<>> THEN 0 ELSE f[2]
      horas_int == IF ok(horas_d) /\ ok(minutos_d) THEN int(horas_d) ELSE 0
      minutos_int == IF ok(horas_d) /\ ok(minutos_d) THEN int(minutos_d) ELSE 0
  IN horas_int * 3600 + minutos_int * 60

\* lines 347-358: the duration the explicit end gives, 0 when there is none
\* or it is not after the start
DuracionDeFin(inicio_dt, fin_str) ==
  LET fin_dt == fromisoformat(fin_str)
  IN IF fin_str # <<>> /\ fin_dt # NULL /\ Val(fin_dt) > inicio_dt
       THEN TotalSecondsInt(Val(fin_dt) - inicio_dt)
       ELSE 0

\* the duration fields added to the duration the explicit end gives
DuracionManual_Suma(inicio_dt, fin_str, horas_d, minutos_d) ==
  DuracionDeFin(inicio_dt, fin_str) + DuracionCampos(horas_d, minutos_d)

\* lines 347-368: the authoritative duration of a manual entry
DuracionManual(inicio_dt, fin_str, horas_d, minutos_d) ==
  IF DuracionDeFin(inicio_dt, fin_str) = 0
    THEN DuracionCampos(horas_d, minutos_d)
    ELSE DuracionDeFin(inicio_dt, fin_str)

\* the submitted end kept whenever it is a date-time
FinManual_Enviado(inicio_dt, fin_str, horas_d, minutos_d) ==
  IF fromisoformat(fin_str) # NULL
    THEN Val(fromisoformat(fin_str))
    ELSE inicio_dt + Seconds(DuracionCampos(horas_d, minutos_d))

\* lines 347-368: the end stored with a manual entry of positive duration
FinManual(inicio_dt, fin_str, horas_d, minutos_d) ==
  IF DuracionDeFin(inicio_dt, fin_str) = 0
    THEN inicio_dt + Seconds(DuracionCampos(horas_d, minutos_d))
    ELSE Val(fromisoformat(fin_str))

\* lines 349-358: tipo after the explicit end was looked at
TipoTrasFin(inicio_dt, fin_str) ==
  IF fin_str # <<>> /\ ~(fromisoformat(fin_str) # NULL /\ Val(fromisoformat(fin_str)) > inicio_dt)
    THEN "warning"
    ELSE "success"

PostManual(f) ==
  LET descripcion == Descripcion(f.descripcion)
      inicio_opt == fromisoformat(f.inicio)
      inicio_dt == Val(inicio_opt)
      duracion == DuracionManual(inicio_dt, f.fin, f.horas, f.minutos)
      fin_dt == FinManual(inicio_dt, f.fin, f.horas, f.minutos)
  IN
  /\ req' = [op |-> "manual", tags |-> f.tags, inicio |-> f.inicio, fin |-> f.fin,
             horas |-> f.horas, minutos |-> f.minutos]
  /\ config' = inicializar_db(config)
  /\ UNCHANGED <<tags, seqTags, now>>
  /\ IF SinTags(f.tags)
       THEN /\ resp' = redirect_with_message("/", "Debes indicar al menos un tag.", "warning")
            /\ UNCHANGED <<registros, seqRegistros, registro_tags>>
       ELSE IF f.inicio = <<>>
         THEN /\ resp' = redirect_with_message("/",
                   "Debes indicar fecha y hora de inicio para el registro manual.", "warning")
              /\ UNCHANGED <<registros, seqRegistros, registro_tags>>
         ELSE IF inicio_opt = NULL
           THEN /\ resp' = redirect_with_message("/",
                     "Formato de fecha y hora de inicio no valido.", "warning")
                /\ UNCHANGED <<registros, seqRegistros, registro_tags>>
           ELSE IF DuracionRechazada(duracion)
             THEN /\ resp' = redirect_with_message("/",
                       "Debes indicar una duracion o una fecha y hora de fin validas.", "warning")
                  /\ UNCHANGED <<registros, seqRegistros, registro_tags>>
             ELSE /\ seqRegistros < MaxRegistros
                  /\ registros' = InsertRegistro(registros, seqRegistros,
                       [fecha |-> DateOf(inicio_dt), inicio |-> Some(inicio_dt),
                        fin |-> Some(fin_dt), duracion |-> duracion,
                        descripcion |-> descripcion, manual |-> 1])
                  /\ seqRegistros' = seqRegistros + 1
                  /\ registro_tags' =
                       asignar_tags_a_registro(registro_tags, seqRegistros + 1, f.tags)
                  /\ resp' = redirect_with_message("/", "Entrada registrada.",
                                                   TipoTrasFin(inicio_dt, f.fin))

\* --------------------------------------------------------- POST / cancelar
\* texts of fecha_cancelar: empty, or the ISO text of a day
FechaIn == {<<>>, <<0>>}

\* values of horas_cancelar and minutos_cancelar, as <<horas, minutos>>
HorasMinutosCancelarIn == {<<-1, 0>>, <<0, 0>>, <<0, 30>>, <<1, -60>>, <<1, 0>>}

CancelarIn ==
  [tags : {<<>>}, fecha : {<<0>>}, horas : {1}, minutos : {0}, descripcion : {<<" ">>}]
  \cup
  [tags : {<<1>>}, fecha : {<<>>}, horas : {1}, minutos : {0}, descripcion : {<<" ">>}]
  \cup
  {[tags |-> <<1>>, fecha |-> <<0>>, horas |-> hm[1], minutos |-> hm[2],
    descripcion |-> <<" ">>] : hm \in HorasMinutosCancelarIn}
  \cup
  [tags : {<<2, 1, 2>>}, fecha : {<<0>>}, horas : {1}, minutos : {0},
   descripcion : {<<"n", " ">>}]

\* lines 398-403: the duration stored with a cancellation
DuracionCancelar(horas_c, minutos_c) == -(horas_c * 3600 + minutos_c * 60)

\* 'Cancelacion de horas', the description given to a cancellation without one
DescripcionCancelar == <<"C">>

PostCancelar(f) ==
  LET descripcion == Descripcion(f.descripcion)
      dur == f.horas * 3600 + f.minutos * 60
  IN
  /\ req' = [op |-> "cancelar", tags |-> f.tags, fecha |-> f.fecha,
             horas |-> f.horas, minutos |-> f.minutos]
  /\ config' = inicializar_db(config)
  /\ UNCHANGED <<tags, seqTags, now>>
  /\ IF SinTags(f.tags)
       THEN /\ resp' = redirect_with_message("/", "Debes indicar al menos un tag.", "warning")
            /\ UNCHANGED <<registros, seqRegistros, registro_tags>>
       ELSE IF f.fecha = <<>>
         THEN /\ resp' = redirect_with_message("/",
                   "Debes indicar una fecha para cancelar horas.", "warning")
              /\ UNCHANGED <<registros, seqRegistros, registro_tags>>
         ELSE IF dur = 0
           THEN /\ resp' = redirect_with_message("/",
                     "La duracion debe ser mayor a cero para cancelar.", "warning")
                /\ UNCHANGED <<registros, seqRegistros, registro_tags>>
           ELSE /\ seqRegistros < MaxRegistros
                /\ registros' = InsertRegistro(registros, seqRegistros,
                     [fecha |-> Val(f.fecha), inicio |-> NULL, fin |-> NULL,
                      duracion |-> DuracionCancelar(f.horas, f.minutos),
                      descripcion |-> IF descripcion = NULL
                                        THEN Some(DescripcionCancelar)
                                        ELSE descripcion,
                      manual |-> 1])
                /\ seqRegistros' = seqRegistros + 1
                /\ registro_tags' =
                     asignar_tags_a_registro(registro_tags, seqRegistros + 1, f.tags)
                /\ resp' = redirect_with_message("/", "Cancelacion registrada.", "success")

\* POST / with any other `accion`: nothing is done, the redirect has no message
PostOtraAccion ==
  /\ req' = [op |-> "otra"]
  /\ config' = inicializar_db(config)
  /\ resp' = redirect_with_message("/", "", "success")
  /\ UNCHANGED <<registros, seqRegistros, tags, seqTags, registro_tags, now>>

\* ------------------------------------------------------- GET /delete/{id}
\* DELETE FROM registros WHERE id = ?; the ON DELETE CASCADE of registro_tags
\* does not run because the connection leaves foreign keys off
handle_delete(registro_id) ==
  /\ req' = [op |-> "delete", id |-> registro_id]
  /\ config' = inicializar_db(config)
  /\ registros' = [i \in DOMAIN registros \ {registro_id} |-> registros[i]]
  /\ resp' = redirect_with_message("/logs", "Registro eliminado.", "success")
  /\ UNCHANGED <<seqRegistros, tags, seqTags, registro_tags, now>>

\* ------------------------------------------------------------------ tags
PALETA_COLORES ==
  << "#e6194B", "#3cb44b", "#ffe119", "#4363d8", "#f58231", "#911eb4",
     "#46f0f0", "#f032e6", "#bcf60c", "#fabebe", "#008080", "#e6beff",
     "#9A6324", "#fffac8", "#800000", "#aaffc3", "#808000", "#ffd8b1",
     "#000075", "#808080" >>

\* a quota of 60 minutes on every weekday
Maximos60 == [d \in 1..7 |-> 60]

\* DIAS_SEMANA: the max_<dia> columns are the positions 1..7 of `maximos`
DIAS_SEMANA == 1..7

\* 'Trabajo', 'Estudio', 'Proyecto personal' as character sequences
Trabajo == <<"T", "r", "a", "b", "a", "j", "o">>

Estudio == <<"E", "s", "t", "u", "d", "i", "o">>

ProyectoPersonal ==
  <<"P", "r", "o", "y", "e", "c", "t", "o", " ", "p", "e", "r", "s", "o", "n", "a", "l">>

\* no UNIQUE constraint on tags.nombre
NombreEnUso_Nunca(tgs, nombre, except) == FALSE

\* the UNIQUE constraint on tags.nombre, for every row but `except`
NombreEnUso(tgs, nombre, except) ==
  \E i \in DOMAIN tgs : i # except /\ tgs[i].nombre = nombre

\* the quotas stored from Sunday to Monday
crear_tag_AlReves(tgs, seq, nombre, color, max_por_dia) ==
  tgs @@ ((seq + 1) :> [nombre |-> nombre, color |-> color, max_diario |-> 0,
                        maximos |-> [d \in 1..7 |-> max_por_dia[8 - d]]])

\* crear_tag: INSERT INTO tags with the color drawn by color_aleatorio
crear_tag(tgs, seq, nombre, color, max_por_dia) ==
  tgs @@ ((seq + 1) :> [nombre |-> nombre, color |-> color, max_diario |-> 0,
                        maximos |-> max_por_dia])

\* POST /tags accion=crear
PostTagsCrear(text, maximos, color) ==
  LET nombre == Strip(text)
  IN
  /\ req' = [op |-> "crear", nombre |-> text, maximos |-> maximos]
  /\ config' = inicializar_db(config)
  /\ UNCHANGED <<registros, seqRegistros, registro_tags, now>>
  /\ IF nombre = <<>>
       THEN /\ resp' = redirect_with_message("/tags", "Debes indicar un nombre.", "warning")
            /\ UNCHANGED <<tags, seqTags>>
       ELSE IF NombreEnUso(tags, nombre, 0)
         THEN /\ resp' = redirect_with_message("/tags", "El tag ya existe.", "warning")
              /\ UNCHANGED <<tags, seqTags>>
         ELSE /\ seqTags < MaxTags
              /\ tags' = crear_tag(tags, seqTags, nombre, color, maximos)
              /\ seqTags' = seqTags + 1
              /\ resp' = redirect_with_message("/tags", "Tag creado.", "success")

\* POST /tags accion=editar: UPDATE tags SET nombre, max_* WHERE id
PostTagsEditar(tag_id, text, maximos) ==
  LET nombre == Strip(text)
  IN
  /\ req' = [op |-> "editar", id |-> tag_id, nombre |-> text, maximos |-> maximos]
  /\ config' = inicializar_db(config)
  /\ UNCHANGED <<registros, seqRegistros, registro_tags, now, seqTags>>
  /\ IF tag_id \in DOMAIN tags /\ NombreEnUso(tags, nombre, tag_id)
       THEN /\ resp' = redirect_with_message("/tags", "Nombre de tag ya utilizado.", "warning")
            /\ UNCHANGED tags
       ELSE /\ tags' = IF tag_id \in DOMAIN tags
                         THEN [tags EXCEPT ![tag_id].nombre = nombre,
                                           ![tag_id].max_diario = 0,
                                           ![tag_id].maximos = maximos]
                         ELSE tags
            /\ resp' = redirect_with_message("/tags", "Tag actualizado.", "success")

\* GET /tags/delete/{id}
handle_delete_tag(tag_id) ==
  LET cnt == ContarUsos(registro_tags, tag_id)
  IN
  /\ req' = [op |-> "delete_tag", id |-> tag_id]
  /\ config' = inicializar_db(config)
  /\ UNCHANGED <<registros, seqRegistros, registro_tags, now, seqTags>>
  /\ IF cnt > 0
       THEN /\ resp' = redirect_with_message("/tags",
                 "Este tag ya se ha utilizado por lo que no se puede eliminar.", "warning")
            /\ UNCHANGED tags
       ELSE /\ tags' = [i \in DOMAIN tags \ {tag_id} |-> tags[i]]
            /\ resp' = redirect_with_message("/tags", "Tag eliminado.", "success")

\* GET /tags/color/{id}
handle_regen_color(tag_id, color) ==
  /\ req' = [op |-> "color", id |-> tag_id]
  /\ config' = inicializar_db(config)
  /\ UNCHANGED <<registros, seqRegistros, registro_tags, now, seqTags>>
  /\ tags' = IF tag_id \in DOMAIN tags THEN [tags EXCEPT ![tag_id].color = color] ELSE tags
  /\ resp' = redirect_with_message("/tags", "Color regenerado.", "success")

\* crear_tags_iniciales: crear_tag for each initial name in order, with seven
\* zero quotas; an IntegrityError (the name exists) skips the name.
\* colores[k] is the color drawn for the k-th name.
RECURSIVE CrearIniciales(_, _, _, _)
CrearIniciales(tgs, seq, nombres, colores) ==
  IF nombres = <<>>
    THEN <<tgs, seq>>
    ELSE IF NombreEnUso(tgs, Head(nombres), 0)
      THEN CrearIniciales(tgs, seq, Tail(nombres), Tail(colores))
      ELSE CrearIniciales(
             crear_tag(tgs, seq, Head(nombres), Head(colores), [d \in DIAS_SEMANA |-> 0]),
             seq + 1, Tail(nombres), Tail(colores))

iniciales == <<Trabajo, Estudio, ProyectoPersonal>>

\* POST /settings accion=init_tags
PostSettingsInitTags(colores) ==
  LET r == CrearIniciales(tags, seqTags, iniciales, colores)
  IN
  /\ req' = [op |-> "init_tags"]
  /\ config' = inicializar_db(config)
  /\ r[2] <= MaxTags
  /\ tags' = r[1]
  /\ seqTags' = r[2]
  /\ resp' = redirect_with_message("/settings", "Tags iniciales creados.", "success")
  /\ UNCHANGED <<registros, seqRegistros, registro_tags, now>>

\* asignar_trabajo_a_todos: INSERT OR IGNORE (rid, id of 'Trabajo') for every
\* row of registros; nothing when no tag is named 'Trabajo'
asignar_trabajo_a_todos(tgs, regs, rt) ==
  LET ids == {i \in DOMAIN tgs : tgs[i].nombre = Trabajo}
  IN IF ids = {}
       THEN rt
       ELSE rt \cup {<<rid, CHOOSE i \in ids : TRUE>> : rid \in DOMAIN regs}

\* POST /settings accion=assign_trabajo
PostSettingsAssignTrabajo ==
  /\ req' = [op |-> "assign_trabajo"]
  /\ config' = inicializar_db(config)
  /\ registro_tags' = asignar_trabajo_a_todos(tags, registros, registro_tags)
  /\ resp' = redirect_with_message("/settings", "Tag asignado a todos los registros.", "success")
  /\ UNCHANGED <<registros, seqRegistros, tags, seqTags, now>>

\* only a negative total refused
MaximoRechazado_Negativo(total_minutos) == total_minutos < 0

\* line 429: the totals POST /settings refuses
MaximoRechazado(total_minutos) == total_minutos <= 0

\* POST /settings with any other accion: the daily maximum
PostSettings(horas, minutos) ==
  LET total_minutos == horas * 60 + minutos
  IN
  /\ req' = [op |-> "settings", horas |-> horas, minutos |-> minutos]
  /\ UNCHANGED <<registros, seqRegistros, tags, seqTags, registro_tags, now>>
  /\ IF MaximoRechazado(total_minutos)
       THEN /\ config' = inicializar_db(config)
            /\ resp' = redirect_with_message("/settings",
                 "La cantidad maxima diaria debe ser mayor a cero.", "warning")
       ELSE /\ config' = [inicializar_db(config) EXCEPT !["horas_max_diarias"] = total_minutos]
            /\ resp' = redirect_with_message("/settings", "Configuracion actualizada.", "success")

\* ------------------------------------------------------------- GET a page
\* do_GET of /, /logs, /settings, /calendar, /tags: the page is rendered from
\* what the tables hold and answered with 200 by respond()
Paginas == {"/", "/logs", "/settings", "/calendar", "/tags"}

GetPagina(path) ==
  /\ req' = [op |-> "get", path |-> path]
  /\ config' = inicializar_db(config)
  /\ resp' = [status |-> 200, location |-> path, message |-> "", type |-> ""]
  /\ UNCHANGED <<registros, seqRegistros, tags, seqTags, registro_tags, now>>

\* ---------------------------------------------------------------- the clock
\* time passes between requests, a second and a fraction at a time
ClockStep == TicksPerSec + 1

Tick ==
  /\ now + ClockStep <= MaxNow
  /\ now' = now + ClockStep
  /\ UNCHANGED <<db, req, resp>>

Next ==
  \/ \E f \in StartIn : PostStart(f)
  \/ PostStop
  \/ \E f \in ManualIn : PostManual(f)
  \/ \E f \in CancelarIn : PostCancelar(f)
  \/ PostOtraAccion
  \/ \E id \in 1..MaxRegistros : handle_delete(id)
  \/ PostTagsCrear(Trabajo, Maximos60, PALETA_COLORES[1])
  \/ \E id \in 1..MaxTags : handle_delete_tag(id)
  \/ PostSettingsAssignTrabajo
  \/ \E path \in Paginas : GetPagina(path)
  \/ Tick

Spec == Init /\ [][Next]_vars

\* ================================================================== views
\* Day 0 of the model is Monday 2024-01-01, so the day numbers of 2024 are
\* 0..365 and date.weekday() is the day number modulo 7 (0 is Monday).
Weekday(d) == d % 7

Min(a, b) == IF a <= b THEN a ELSE b

\* sum(g[x] for x in S)
RECURSIVE Suma(_, _)
Suma(g, S) ==
  IF S = {} THEN 0
  ELSE LET x == CHOOSE y \in S : TRUE IN g[x] + Suma(g, S \ {x})

obtener_horas_maximas(cfg) ==
  IF "horas_max_diarias" \in DOMAIN cfg THEN cfg["horas_max_diarias"] ELSE 0

\* SUM(duracion) over the rows `ids` of registros
SumaDuracion(regs, ids) == Suma([i \in ids |-> regs[i].duracion], ids)

\* the rows of one date
DelDia(regs, f) == {i \in DOMAIN regs : regs[i].fecha = f}

\* r JOIN registro_tags rt JOIN tags t WHERE r.fecha = f, for the group t
DelDiaConTag(regs, tgs, rt, f, t) ==
  {i \in DelDia(regs, f) : t \in DOMAIN tgs /\ <<i, t>> \in rt}

\* fecha = f AND id NOT IN (SELECT registro_id FROM registro_tags)
DelDiaSinTag(regs, rt, f) ==
  {i \in DelDia(regs, f) : ~\E p \in rt : p[1] = i}

\* the groups of the GROUP BY t.id of one date
TagsDelDia(regs, tgs, rt, f) ==
  {t \in DOMAIN tgs : DelDiaConTag(regs, tgs, rt, f, t) # {}}

\* ---------------------------------------------------------- GET /calendar
\* lines 998-1006: the instants a row starts and ends at
InicioDt(row) ==
  IF row.inicio # NULL THEN Val(row.inicio) ELSE row.fecha * TicksPerDay

FinDt(row) ==
  IF row.fin # NULL THEN Val(row.fin) ELSE InicioDt(row) + Seconds(row.duracion)

\* lines 983-987: the rows whose fecha is a day of the week
FilasSemana(regs, start_of_week) ==
  {i \in DOMAIN regs : regs[i].fecha >= start_of_week /\ regs[i].fecha <= start_of_week + 6}

\* the next iteration entered although the end is exactly its midnight
SigueTrasDia_Igual(day_end_dt, fin_dt) == day_end_dt <= fin_dt

\* lines 1034-1038: the loop goes on to the next day
SigueTrasDia(day_end_dt, fin_dt) == day_end_dt < fin_dt

\* lines 1012-1038: the events of one row, one per day from current_start on;
\* start is in whole seconds of the day, duration in ticks
RECURSIVE Segmentos(_, _, _, _)
Segmentos(id, current_start, fin_dt, start_of_week) ==
  IF DateOf(current_start) <= DateOf(fin_dt) /\ DateOf(current_start) <= start_of_week + 6
    THEN LET day_index == DateOf(current_start) - start_of_week
             day_end_dt == (DateOf(current_start) + 1) * TicksPerDay
             event_end_dt == Min(fin_dt, day_end_dt)
             evento == [id |-> id, day |-> day_index,
                        start |-> (current_start % TicksPerDay) \div TicksPerSec,
                        duration |-> event_end_dt - current_start]
         IN (IF 0 <= day_index /\ day_index <= 6 THEN {evento} ELSE {})
            \cup
            (IF SigueTrasDia(day_end_dt, fin_dt)
               THEN Segmentos(id, day_end_dt, fin_dt, start_of_week)
               ELSE {})
    ELSE {}

\* render_calendar: events and the seven day summaries of the week of ref_date
render_calendar(regs, cfg, ref_date) ==
  LET start_of_week == ref_date - Weekday(ref_date)
      events == UNION {Segmentos(i, InicioDt(regs[i]), FinDt(regs[i]), start_of_week) :
                         i \in FilasSemana(regs, start_of_week)}
      del_dia(d) == {e \in events : e.day = d}
      duracion_por_dia == [d \in 0..6 |-> Suma([e \in del_dia(d) |-> e.duration], del_dia(d))]
      minutos_maximos == obtener_horas_maximas(cfg)
  IN [start_of_week |-> start_of_week,
      events |-> events,
      summaries |-> [d \in 0..6 |->
                       [total |-> TotalSecondsInt(duracion_por_dia[d]),
                        diferencia |-> TotalSecondsInt(duracion_por_dia[d])
                                         - minutos_maximos * 60]]]

\* -------------------------------------------------------------- GET /logs
\* the lengths of the months of 2024
DiasDelMes == <<31, 29, 31, 30, 31, 30, 31, 31, 30, 31, 30, 31>>

\* date(2024, month, 1) as a day number
RECURSIVE PrimerDia(_)
PrimerDia(month) ==
  IF month = 1 THEN 0 ELSE PrimerDia(month - 1) + DiasDelMes[month - 1]

\* lines 789-793: the first day after the month
Hasta(month) ==
  IF month = 12 THEN PrimerDia(12) + DiasDelMes[12] ELSE PrimerDia(month + 1)

\* the quota of Monday taken on every day
CuotaDelDia_Lunes(tag, d) == tag.maximos[1] * 60

\* t['max_' + DIAS_SEMANA[d.weekday()]] * 60
CuotaDelDia(tag, d) == tag.maximos[Weekday(d) + 1] * 60

\* the quota the 'sin tag' row of a day is given (line 827)
CuotaSinTag == 0

\* render_logs: the summary of every day with rows, and the accumulated
\* difference of every tag over the days of the month
render_logs(regs, tgs, rt, month) ==
  LET dias == PrimerDia(month) .. (Hasta(month) - 1)
      fechas == {f \in dias : DelDia(regs, f) # {}}
      total_tag(t, f) == SumaDuracion(regs, DelDiaConTag(regs, tgs, rt, f, t))
      sin_tag_total(f) == SumaDuracion(regs, DelDiaSinTag(regs, rt, f))
      con_tag(t) == {f \in fechas : t \in TagsDelDia(regs, tgs, rt, f)}
      sin_tag == {f \in fechas : sin_tag_total(f) # 0}
  IN [resumen |->
        [f \in fechas |->
           [total |-> SumaDuracion(regs, DelDia(regs, f)),
            tags |-> [t \in TagsDelDia(regs, tgs, rt, f) |->
                        [total |-> total_tag(t, f),
                         diff |-> total_tag(t, f) - CuotaDelDia(tgs[t], f)]],
            sin_tag |-> IF f \in sin_tag
                          THEN Some([total |-> sin_tag_total(f),
                                     diff |-> sin_tag_total(f) - CuotaSinTag * 60])
                          ELSE NULL,
            diferencia |->
              Suma([t \in TagsDelDia(regs, tgs, rt, f) |->
                      total_tag(t, f) - CuotaDelDia(tgs[t], f)],
                   TagsDelDia(regs, tgs, rt, f))
              + (IF f \in sin_tag THEN sin_tag_total(f) - CuotaSinTag * 60 ELSE 0)]],
      acumulado_por_tag |->
        [t \in DOMAIN tgs |->
           Suma([f \in con_tag(t) |-> total_tag(t, f)], con_tag(t))
           - Suma([d \in dias |-> CuotaDelDia(tgs[t], d)], dias)],
      acumulado_sin_tag |->
        IF sin_tag = {} THEN NULL
        ELSE Some(Suma([f \in sin_tag |-> sin_tag_total(f)], sin_tag))]

\* --------------------------------------------------------------- GET /
\* render_index: today's total of every tag with its difference, the total of
\* the rows without tag, and the day's TOTAL
render_index(regs, tgs, rt, ahora) ==
  LET hoy == DateOf(ahora)
      activos == Activos(regs)
      reg_activo == Val(obtener_registro_activo(regs))
      tiempo_transcurrido ==
        IF activos = {} THEN 0
        ELSE TotalSecondsInt(ahora - Val(regs[reg_activo].inicio))
      activos_ids ==
        IF activos = {} THEN {}
        ELSE {t \in DOMAIN tgs : <<reg_activo, t>> \in rt}
      grupos == TagsDelDia(regs, tgs, rt, hoy) \cup activos_ids
      total(t) ==
        SumaDuracion(regs, DelDiaConTag(regs, tgs, rt, hoy, t))
        + (IF t \in activos_ids THEN tiempo_transcurrido ELSE 0)
      sin_tag_total == SumaDuracion(regs, DelDiaSinTag(regs, rt, hoy))
  IN [por_tag |-> [t \in grupos |->
                     [total |-> total(t),
                      max |-> CuotaDelDia(tgs[t], hoy),
                      diff |-> total(t) - CuotaDelDia(tgs[t], hoy)]],
      sin_tag_total |-> sin_tag_total,
      total_hoy |-> sin_tag_total + Suma([t \in grupos |-> total(t)], grupos)]

\* ------------------------------------------------- the views as requests
\* the instant of hour h of day d
Hora(d, h) == Seconds(d * SecsPerDay + h * 3600)

\* a quota that differs from weekday to weekday
MaximosSemana == <<120, 60, 0, 0, 0, 0, 30>>

\* the manual forms explored with the views: intervals that cross midnight
\* (one day, two days, ending at midnight, over the end of the week) and
\* durations given in minutes
VistaManualIn ==
  [tags : {<<1>>}, inicio : {<<TRUE, Hora(0, 23)>>},
   fin : {<<TRUE, Hora(1, 0)>>, <<TRUE, Hora(1, 2)>>, <<TRUE, Hora(2, 1)>>},
   horas : {<<>>}, minutos : {<<>>}, descripcion : {<<" ">>}]
  \cup
  [tags : {<<1>>}, inicio : {<<TRUE, Hora(6, 23)>>}, fin : {<<TRUE, Hora(7, 1)>>},
   horas : {<<>>}, minutos : {<<>>}, descripcion : {<<" ">>}]
  \cup
  {[tags |-> <<1>>, inicio |-> <<TRUE, Hora(dm[1], 1)>>, fin |-> <<>>,
    horas |-> <<>>, minutos |-> <<TRUE, dm[2]>>, descripcion |-> <<" ">>] :
     dm \in {<<0, 90>>, <<1, 45>>}}
  \cup
  [tags : {<<1, 2>>}, inicio : {<<TRUE, Hora(0, 1)>>}, fin : {<<>>},
   horas : {<<>>}, minutos : {<<TRUE, 30>>}, descripcion : {<<" ">>}]

\* the cancellation explored with the views: 30 minutes of day 1
VistaCancelarIn ==
  [tags : {<<1>>}, fecha : {<<1>>}, horas : {0}, minutos : {30}, descripcion : {<<" ">>}]

\* values of the `week` parameter: a Wednesday and the Monday after it
SemanasIn == {2, 7}

\* values of the `month` parameter, of year 2024
MesesIn == {1, 2}

\* respond(): 200 with the page; `vista` is what the page shows
respond(path, vista) ==
  [status |-> 200, location |-> path, message |-> "", type |-> "", vista |-> vista]

GetCalendar(ref_date) ==
  /\ req' = [op |-> "calendar", week |-> ref_date]
  /\ config' = inicializar_db(config)
  /\ resp' = respond("/calendar", render_calendar(registros, config', ref_date))
  /\ UNCHANGED <<registros, seqRegistros, tags, seqTags, registro_tags, now>>

GetLogs(month) ==
  /\ req' = [op |-> "logs", month |-> month]
  /\ config' = inicializar_db(config)
  /\ resp' = respond("/logs", render_logs(registros, tags, registro_tags, month))
  /\ UNCHANGED <<registros, seqRegistros, tags, seqTags, registro_tags, now>>

GetIndex ==
  /\ req' = [op |-> "index"]
  /\ config' = inicializar_db(config)
  /\ resp' = respond("/", render_index(registros, tags, registro_tags, now))
  /\ UNCHANGED <<registros, seqRegistros, tags, seqTags, registro_tags, now>>

\* a row recorded before entries had tags: no association refers to it
RegistroSinTag ==
  [fecha |-> 0, inicio |-> Some(Hora(0, 9)), fin |-> Some(Hora(0, 10)),
   duracion |-> 3600, descripcion |-> NULL, manual |-> 0]

\* the store is empty, or holds one entry of the time before tags
InitVistas ==
  /\ \/ registros = <<>> /\ seqRegistros = 0
     \/ registros = <<RegistroSinTag>> /\ seqRegistros = 1
  /\ tags = <<>>
  /\ seqTags = 0
  /\ registro_tags = {}
  /\ config = inicializar_db(<<>>)
  /\ now = 0
  /\ req = [op |-> "none"]
  /\ resp = [status |-> 0, location |-> "", message |-> "", type |-> ""]

NextVistas ==
  \/ \E f \in VistaManualIn : PostManual(f)
  \/ \E f \in VistaCancelarIn : PostCancelar(f)
  \/ PostTagsCrear(Trabajo, Maximos60, PALETA_COLORES[1])
  \/ PostTagsCrear(Estudio, MaximosSemana, PALETA_COLORES[2])
  \/ \E ref_date \in SemanasIn : GetCalendar(ref_date)
  \/ \E month \in MesesIn : GetLogs(month)
  \/ GetIndex

SpecVistas == InitVistas /\ [][NextVistas]_vars

\* ======================================================= tags and settings
\* obtener_tags: SELECT * FROM tags; the rows by id (the ORDER BY nombre of
\* the list is not modelled)
obtener_tags(tgs) == tgs

\* GET /tags: the page lists the rows of obtener_tags
GetTags ==
  /\ req' = [op |-> "tags"]
  /\ config' = inicializar_db(config)
  /\ resp' = respond("/tags", obtener_tags(tags))
  /\ UNCHANGED <<registros, seqRegistros, tags, seqTags, registro_tags, now>>

\* the forms of POST /tags accion=crear explored, as <<nombre, maximos, color>>:
\* a name between blanks, a plain name, a name of blanks
CrearIn ==
  { <<(<<" ">> \o Trabajo) \o <<" ">>, MaximosSemana, PALETA_COLORES[1]>>,
    <<Estudio, Maximos60, PALETA_COLORES[2]>>,
    <<(<<" ">>), Maximos60, PALETA_COLORES[1]>> }

\* the forms of POST /tags accion=editar explored, as <<nombre, maximos>>
EditarIn == { <<Estudio, Maximos60>>, <<(<<" ">>), MaximosSemana>> }

\* the forms of POST /settings explored, as <<horas, minutos>>
SettingsIn == { <<1, -60>>, <<1, 0>> }

\* the manual form explored with the tags: one hour with tag 1
TagsManualIn ==
  [tags : {<<1>>}, inicio : {<<TRUE, ManualT0>>}, fin : {<<>>},
   horas : {<<TRUE, 1>>}, minutos : {<<>>}, descripcion : {<<" ">>}]

NextTags ==
  \/ \E f \in CrearIn : PostTagsCrear(f[1], f[2], f[3])
  \/ \E id \in 1..MaxTags : \E f \in EditarIn : PostTagsEditar(id, f[1], f[2])
  \/ \E id \in 1..MaxTags : handle_delete_tag(id)
  \/ \E id \in 1..MaxTags : handle_regen_color(id, PALETA_COLORES[3])
  \/ PostSettingsInitTags(<<PALETA_COLORES[4], PALETA_COLORES[4], PALETA_COLORES[4]>>)
  \/ PostSettingsAssignTrabajo
  \/ \E f \in SettingsIn : PostSettings(f[1], f[2])
  \/ \E f \in TagsManualIn : PostManual(f)
  \/ \E id \in 1..MaxRegistros : handle_delete(id)
  \/ GetTags
  \/ \E path \in Paginas : GetPagina(path)

SpecTags == Init /\ [][NextTags]_vars

\* ================================================= start requests in flight
\* Two start requests handled at the same time (a threading server, or two
\* server processes on the same database.db).  Every sqlite3 connection is
\* opened, used and closed within one step: the lookup of the active timer,
\* the INSERT with its commit, and asignar_tags_a_registro are three
\* transactions, and there is no lock around them.  Here req holds the
\* position of each handler and resp the response sent last.
Hilos == {1, 2}

\* a handler that waits for a request
Libre == [pc |-> "libre", tags |-> <<>>, descripcion |-> NULL, registro_id |-> 0]

\* the start forms the two handlers are given
CarreraIn ==
  [tags : {<<>>, <<1>>}, descripcion : {<<" ">>}]

InitCarrera ==
  /\ registros = <<>>
  /\ seqRegistros = 0
  /\ tags = <<>>
  /\ seqTags = 0
  /\ registro_tags = {}
  /\ config = inicializar_db(<<>>)
  /\ now = 0
  /\ req = [op |-> "start", hilos |-> [h \in Hilos |-> Libre]]
  /\ resp = [status |-> 0, location |-> "", message |-> "", type |-> ""]

\* lines 269-288: the form is read; without tags the request ends here
Recibe(h, f) ==
  /\ req.hilos[h].pc = "libre"
  /\ config' = inicializar_db(config)
  /\ UNCHANGED <<registros, seqRegistros, tags, seqTags, registro_tags, now>>
  /\ IF SinTags(f.tags)
       THEN /\ resp' = redirect_with_message("/", "Debes indicar al menos un tag.", "warning")
            /\ UNCHANGED req
       ELSE /\ req' = [req EXCEPT !.hilos[h] =
                         [pc |-> "lookup", tags |-> f.tags,
                          descripcion |-> Descripcion(f.descripcion), registro_id |-> 0]]
            /\ UNCHANGED resp

\* lines 289-292: obtener_registro_activo in a connection of its own
Lookup(h) ==
  /\ req.hilos[h].pc = "lookup"
  /\ UNCHANGED <<db, now>>
  /\ IF obtener_registro_activo(registros) # NULL
       THEN /\ resp' = redirect_with_message("/",
                 "Ya hay un cronometro en curso. Detenlo antes de iniciar uno nuevo.", "warning")
            /\ req' = [req EXCEPT !.hilos[h] = Libre]
       ELSE /\ req' = [req EXCEPT !.hilos[h].pc = "insert"]
            /\ UNCHANGED resp

\* lines 294-303: the INSERT and its commit
Insert(h) ==
  /\ req.hilos[h].pc = "insert"
  /\ seqRegistros < MaxRegistros
  /\ registros' = InsertRegistro(registros, seqRegistros,
       [fecha |-> DateOf(now), inicio |-> Some(now), fin |-> NULL,
        duracion |-> 0, descripcion |-> req.hilos[h].descripcion, manual |-> 0])
  /\ seqRegistros' = seqRegistros + 1
  /\ req' = [req EXCEPT !.hilos[h].pc = "tags", !.hilos[h].registro_id = seqRegistros + 1]
  /\ UNCHANGED <<tags, seqTags, registro_tags, config, now, resp>>

\* lines 304-305 and 416-417: the associations, then the redirect
AsignaTags(h) ==
  /\ req.hilos[h].pc = "tags"
  /\ registro_tags' =
       asignar_tags_a_registro(registro_tags, req.hilos[h].registro_id, req.hilos[h].tags)
  /\ resp' = redirect_with_message("/", "Cronometro iniciado.", "success")
  /\ req' = [req EXCEPT !.hilos[h] = Libre]
  /\ UNCHANGED <<registros, seqRegistros, tags, seqTags, config, now>>

NextCarrera ==
  \/ \E h \in Hilos : \E f \in CarreraIn : Recibe(h, f)
  \/ \E h \in Hilos : Lookup(h)
  \/ \E h \in Hilos : Insert(h)
  \/ \E h \in Hilos : AsignaTags(h)
  \/ Tick

SpecCarrera == InitCarrera /\ [][NextCarrera]_vars

\* =================================================================== claims
\* what the formulas below read of a step
\* the step handles a start request; req' holds its tags
EsStart == req'.op = "start" /\ \E f \in StartIn : PostStart(f)

\* the step handles a stop request
EsStop == req'.op = "stop" /\ PostStop

Corriendo == \E i \in DOMAIN registros : registros[i].fin = NULL /\ registros[i].manual = 0

EntradasIntactas ==
  /\ registros' = registros
  /\ seqRegistros' = seqRegistros
  /\ registro_tags' = registro_tags

\* C1: after any sequence of requests handled one after the other, at most
\* one entry has end = null and manual = false.
C1_UnSoloCronometro ==
  \A i, j \in DOMAIN registros :
    (/\ registros[i].fin = NULL /\ registros[i].manual = 0
     /\ registros[j].fin = NULL /\ registros[j].manual = 0) => i = j

\* a start was accepted while another entry, not running, is stored
C1_Witness ==
  /\ req.op = "start"
  /\ resp.message = "Cronometro iniciado."
  /\ Cardinality(DOMAIN registros) = 2
  /\ Corriendo

\* C2: a start request received while a timer is running answers with a
\* warning, creates no entry and leaves the running entry and its tag
\* associations as they were.
C2_StartCorriendo ==
  [][(EsStart /\ Corriendo) =>
       (resp'.type = "warning" /\ EntradasIntactas)]_vars

\* a start that selected a tag was refused because a timer is running
C2_Witness ==
  /\ req.op = "start"
  /\ req.tags # <<>>
  /\ resp.message = "Ya hay un cronometro en curso. Detenlo antes de iniciar uno nuevo."
  /\ resp.type = "warning"
  /\ Corriendo

\* C3: a stop request received while no timer is running answers with a
\* warning, creates no entry and modifies no entry.
C3_StopSinCronometro ==
  [][(EsStop /\ ~Corriendo) =>
       (resp'.type = "warning" /\ EntradasIntactas)]_vars

\* a stop was refused while entries, none of them running, are stored
C3_Witness ==
  /\ req.op = "stop"
  /\ resp.message = "No hay un cronometro en curso."
  /\ resp.type = "warning"
  /\ registros # <<>>
  /\ ~Corriendo

\* C4: a start request that selects no tag is refused with a warning and
\* creates no entry, whether a timer is running or not.
C4_StartSinTags ==
  [][(EsStart /\ req'.tags = <<>>) => (resp'.type = "warning" /\ EntradasIntactas)]_vars

\* a start without tags was refused while a timer is running
C4_Witness ==
  /\ req.op = "start"
  /\ req.tags = <<>>
  /\ resp.message = "Debes indicar al menos un tag."
  /\ resp.type = "warning"
  /\ Corriendo

\* C5: a stop request received while a timer is running sets the running
\* entry's end to the current time and its duration to the whole seconds
\* between start and the current time, changes no other entry, and leaves no
\* entry with end = null and manual = false, so that the next start that
\* selects a tag is not refused for a running timer.
C5_StopCorriendo ==
  [][(EsStop /\ Corriendo) =>
       \E id \in DOMAIN registros :
         /\ registros[id].fin = NULL /\ registros[id].manual = 0
         /\ DOMAIN registros' = DOMAIN registros
         /\ registros'[id].fin = Some(now)
         /\ registros'[id].duracion * TicksPerSec <= now - Val(registros[id].inicio)
         /\ now - Val(registros[id].inicio) < (registros'[id].duracion + 1) * TicksPerSec
         /\ registros'[id].inicio = registros[id].inicio
         /\ registros'[id].fecha = registros[id].fecha
         /\ registros'[id].descripcion = registros[id].descripcion
         /\ registros'[id].manual = 0
         /\ \A j \in DOMAIN registros \ {id} : registros'[j] = registros[j]
         /\ registro_tags' = registro_tags
         /\ \A j \in DOMAIN registros' :
              ~(registros'[j].fin = NULL /\ registros'[j].manual = 0)
         /\ obtener_registro_activo(registros') = NULL
         /\ resp'.type = "success"]_vars

\* a timer that ran for more than a second was stopped next to another entry
C5_Witness ==
  /\ req.op = "stop"
  /\ resp.message = "Cronometro detenido."
  /\ Cardinality(DOMAIN registros) = 2
  /\ \E i \in DOMAIN registros :
       /\ registros[i].manual = 0
       /\ registros[i].fin = Some(now)
       /\ registros[i].duracion >= 1

\* the step handles a manual-entry request; req' holds its form
EsManual == req'.op = "manual" /\ \E f \in ManualIn : PostManual(f)

\* the step handles a cancellation request; req' holds its form
EsCancelar == req'.op = "cancelar" /\ \E f \in CancelarIn : PostCancelar(f)

\* the row a step has just inserted into registros
Nuevo == registros'[seqRegistros']

\* the submitted end is an ISO date-time later than the submitted start
FinPosterior(f) ==
  /\ f.inicio # <<>> /\ f.inicio[1]
  /\ f.fin # <<>> /\ f.fin[1]
  /\ f.fin[2] > f.inicio[2]

\* the integer a duration field submits (0 for the empty text)
Campo(c) == IF c = <<>> THEN 0 ELSE c[2]

CamposEnteros(f) == (f.horas = <<>> \/ f.horas[1]) /\ (f.minutos = <<>> \/ f.minutos[1])

\* C6: for every accepted manual entry submitted with an explicit end later
\* than its start, the stored end is the submitted end and the stored
\* duration is stored end - stored start in whole seconds, whatever the
\* duration fields contain.
C6_FinExplicito ==
  [][(EsManual /\ resp'.message = "Entrada registrada." /\ FinPosterior(req')) =>
         /\ Nuevo.fin = Some(req'.fin[2])
         /\ Nuevo.inicio = Some(req'.inicio[2])
         /\ Nuevo.duracion * TicksPerSec <= Val(Nuevo.fin) - Val(Nuevo.inicio)
         /\ Val(Nuevo.fin) - Val(Nuevo.inicio) < (Nuevo.duracion + 1) * TicksPerSec]_vars

\* C7: for every accepted manual entry submitted with no end and with
\* duration fields h and m, the stored duration is h*3600 + m*60 seconds and
\* the stored end is start + that duration.
C7_SoloCampos ==
  [][(EsManual /\ resp'.message = "Entrada registrada." /\ req'.fin = <<>>) =>
         /\ CamposEnteros(req')
         /\ Nuevo.manual = 1
         /\ Nuevo.inicio = Some(req'.inicio[2])
         /\ Nuevo.duracion = Campo(req'.horas) * 3600 + Campo(req'.minutos) * 60
         /\ Nuevo.fin = Some(req'.inicio[2] + Nuevo.duracion * TicksPerSec)]_vars

\* a manual entry of 1 h 30 min without an end was stored
C7_Witness ==
  /\ req.op = "manual"
  /\ req.fin = <<>>
  /\ req.horas = <<TRUE, 1>>
  /\ req.minutos = <<TRUE, 30>>
  /\ resp.message = "Entrada registrada."
  /\ \E i \in DOMAIN registros :
       registros[i].manual = 1 /\ registros[i].duracion = 5400

\* the explicit end gives no positive number of seconds: it is missing, no
\* date-time, not after the start, or less than a second after it
FinSinDuracion(f) ==
  ~(FinPosterior(f) /\ f.fin[2] - f.inicio[2] >= TicksPerSec)

\* the duration fields give no positive number of seconds
CamposSinDuracion(f) ==
  ~(CamposEnteros(f) /\ Campo(f.horas) * 3600 + Campo(f.minutos) * 60 > 0)

\* C8: a manual-entry request for which neither the explicit end nor the
\* duration fields give a positive duration (negative and zero sums of hours
\* and minutes included) is refused with a warning and stores no entry; hence
\* every stored manual entry with a start has duration > 0 (no entry is
\* stored initially, so it is stated of the state after every step).
C8_SinDuracionPositiva ==
  [][/\ (EsManual /\ FinSinDuracion(req') /\ CamposSinDuracion(req')) =>
          (resp'.type = "warning" /\ EntradasIntactas)
     /\ \A i \in DOMAIN registros' :
          (registros'[i].manual = 1 /\ registros'[i].inicio # NULL) =>
            registros'[i].duracion > 0]_vars

\* a manual entry whose end is not after its start and whose fields sum to a
\* negative duration was refused while another manual entry is stored
C8_Witness ==
  /\ req.op = "manual"
  /\ req.tags # <<>>
  /\ req.fin = req.inicio
  /\ req.horas = <<>>
  /\ req.minutos = <<TRUE, -60>>
  /\ resp.message = "Debes indicar una duracion o una fecha y hora de fin validas."
  /\ resp.type = "warning"
  /\ \E i \in DOMAIN registros : registros[i].manual = 1 /\ registros[i].inicio # NULL

\* C9: every entry stored by the cancellation action has a strictly negative
\* duration and null start and end, for every integer value of the submitted
\* hours and minutes, negative ones included.
C9_CancelacionNegativa ==
  [][(EsCancelar /\ resp'.message = "Cancelacion registrada.") =>
         (Nuevo.duracion < 0 /\ Nuevo.inicio = NULL /\ Nuevo.fin = NULL)]_vars

\* C10: a delete-tag request for a tag associated with at least one existing
\* entry fails with a warning and leaves the tag and all associations.
C10_TagEnUso ==
  [][(/\ req'.op = "delete_tag"
      /\ handle_delete_tag(req'.id)
      /\ \E p \in registro_tags : p[2] = req'.id /\ p[1] \in DOMAIN registros) =>
         (resp'.type = "warning" /\ tags' = tags /\ registro_tags' = registro_tags)]_vars

\* the delete of a stored tag that an existing entry carries was refused
C10_Witness ==
  /\ req.op = "delete_tag"
  /\ req.id \in DOMAIN tags
  /\ resp.message = "Este tag ya se ha utilizado por lo que no se puede eliminar."
  /\ resp.type = "warning"
  /\ \E p \in registro_tags : p[2] = req.id /\ p[1] \in DOMAIN registros

\* the step handles a delete-tag request; req' holds the id
EsDeleteTag == req'.op = "delete_tag" /\ handle_delete_tag(req'.id)

\* the step handles a delete-entry request; req' holds the id
EsDelete == req'.op = "delete" /\ handle_delete(req'.id)

\* C11: after any sequence of operations, a delete-tag request for a stored
\* tag that no currently existing entry is associated with succeeds and
\* removes the tag, also when the tag's only entries have since been deleted.
C11_TagSinUso ==
  [][(/\ EsDeleteTag
      /\ req'.id \in DOMAIN tags
      /\ ~\E p \in registro_tags : p[2] = req'.id /\ p[1] \in DOMAIN registros) =>
         (resp'.type = "success" /\ req'.id \notin DOMAIN tags')]_vars

\* C12: deleting an entry by id removes all of that entry's entry-tag
\* associations, so that every association refers to an existing entry.
C12_BorradoEnCascada ==
  [][EsDelete =>
       /\ \A p \in registro_tags' : p[1] # req'.id
       /\ \A p \in registro_tags' : p[1] \in DOMAIN registros']_vars

\* the values of accion that do_POST handles on path /
AccionesRaiz == {"start", "stop", "manual", "cancelar"}

\* C17: every POST / response whose flash type is warning left the entries
\* and the associations unchanged, and every request that stored an entry is
\* answered with type success; a manual entry whose end is not after its start
\* is answered with a warning and no state change.
C17_AvisoSinCambio ==
  [][req'.op \in AccionesRaiz =>
       /\ resp'.type = "warning" =>
            (registros' = registros /\ registro_tags' = registro_tags)
       /\ seqRegistros' # seqRegistros => resp'.type = "success"]_vars

\* the page shown last is the calendar; resp.vista is what it shows
EsCalendario == req.op = "calendar"

\* the entries that have a start and a later end
ConIntervalo == {i \in DOMAIN registros :
                   /\ registros[i].inicio # NULL
                   /\ registros[i].fin # NULL
                   /\ Val(registros[i].inicio) < Val(registros[i].fin)}

\* the part of entry i that falls on day d, in ticks (not positive: none)
ParteDelDia(i, d) ==
  Min(Val(registros[i].fin), (d + 1) * TicksPerDay)
  - (IF Val(registros[i].inicio) >= d * TicksPerDay
       THEN Val(registros[i].inicio) ELSE d * TicksPerDay)

\* the events the calendar shows of entry i
EventosDe(i) == {e \in resp.vista.events : e.id = i}

\* the event that shows the part of entry i on day d of the week from lunes on
EventoDelDia(i, lunes, d) ==
  [id |-> i, day |-> d,
   start |-> IF Val(registros[i].inicio) >= (lunes + d) * TicksPerDay
               THEN (Val(registros[i].inicio) % TicksPerDay) \div TicksPerSec
               ELSE 0,
   duration |-> ParteDelDia(i, lunes + d)]

\* C13: for every entry with start < end whose interval lies inside the
\* displayed week, the calendar shows exactly one segment per calendar day the
\* interval overlaps, each clipped at midnight, and no other segment (none of
\* length zero for an entry that ends exactly at midnight); the segment
\* durations sum to end - start.
C13_UnSegmentoPorDia ==
  EsCalendario =>
    LET lunes == resp.vista.start_of_week IN
    \A i \in ConIntervalo :
      (/\ Val(registros[i].inicio) >= lunes * TicksPerDay
       /\ Val(registros[i].fin) <= (lunes + 7) * TicksPerDay) =>
         /\ EventosDe(i) =
              {EventoDelDia(i, lunes, d) : d \in {x \in 0..6 : ParteDelDia(i, lunes + x) > 0}}
         /\ Suma([e \in EventosDe(i) |-> e.duration], EventosDe(i))
              = Val(registros[i].fin) - Val(registros[i].inicio)

\* the calendar shows Monday 23:00 to Tuesday 02:00 as 60 minutes from 23:00 of
\* Monday and 120 minutes from 00:00 of Tuesday, and Monday 23:00 to midnight
\* as one segment of 60 minutes
C13_Witness ==
  /\ EsCalendario
  /\ \E i \in ConIntervalo :
       EventosDe(i) = {[id |-> i, day |-> 0, start |-> 23 * 3600, duration |-> Seconds(3600)],
                       [id |-> i, day |-> 1, start |-> 0, duration |-> Seconds(7200)]}
  /\ \E i \in ConIntervalo :
       /\ Val(registros[i].fin) = Hora(1, 0)
       /\ EventosDe(i) = {[id |-> i, day |-> 0, start |-> 23 * 3600, duration |-> Seconds(3600)]}

\* C14: in the weekly calendar an entry whose interval lies fully outside the
\* displayed week produces no segment, and an entry that partially overlaps
\* the week (starting before Monday and ending inside it, or starting inside
\* it and ending after Sunday) produces exactly the segments for the days of
\* the displayed week it overlaps.
C14_SoloLaSemana ==
  EsCalendario =>
    LET lunes == resp.vista.start_of_week IN
    \A i \in ConIntervalo :
      EventosDe(i) =
        {EventoDelDia(i, lunes, d) : d \in {x \in 0..6 : ParteDelDia(i, lunes + x) > 0}}

\* the page shown last is the monthly log; resp.vista is what it shows
EsLogs == req.op = "logs"

\* the seconds recorded for tag t on day d
SegundosDelTag(t, d) ==
  LET ids == {i \in DOMAIN registros : registros[i].fecha = d /\ <<i, t>> \in registro_tags}
  IN Suma([i \in ids |-> registros[i].duracion], ids)

\* the difference of tag t on day d: seconds recorded minus the quota of the
\* weekday, in seconds
DiferenciaDelDia(t, d) == SegundosDelTag(t, d) - tags[t].maximos[(d % 7) + 1] * 60

\* the days of the month the log was asked for
DiasDelLog == PrimerDia(req.month) .. (Hasta(req.month) - 1)

\* C15: the monthly accumulated difference shown for a tag equals the sum,
\* over the days of the queried month, of the tag's per-day difference
\* (seconds recorded for the tag on the day minus the tag's quota for that
\* weekday * 60), that is sum(actual) - sum(quota).
C15_AcumuladoMensual ==
  EsLogs =>
    \A t \in DOMAIN tags :
      /\ resp.vista.acumulado_por_tag[t]
           = Suma([d \in DiasDelLog |-> DiferenciaDelDia(t, d)], DiasDelLog)
      /\ resp.vista.acumulado_por_tag[t]
           = Suma([d \in DiasDelLog |-> SegundosDelTag(t, d)], DiasDelLog)
             - Suma([d \in DiasDelLog |-> tags[t].maximos[(d % 7) + 1] * 60], DiasDelLog)

\* the log of January with a quota of 60 minutes a day and 90, 45 and 0
\* minutes recorded on its first three days: these days add up to -45
\* minutes, the 31 days to 135 - 31 * 60 minutes; a second tag has a quota
\* that depends on the weekday
C15_Witness ==
  /\ EsLogs
  /\ req.month = 1
  /\ DOMAIN tags = {1, 2}
  /\ tags[1].maximos = Maximos60
  /\ tags[2].maximos = MaximosSemana
  /\ SegundosDelTag(1, 0) = 90 * 60
  /\ SegundosDelTag(1, 1) = 45 * 60
  /\ SegundosDelTag(1, 2) = 0
  /\ Suma([d \in 0..2 |-> DiferenciaDelDia(1, d)], 0..2) = -45 * 60
  /\ resp.vista.acumulado_por_tag[1] = (135 - 31 * 60) * 60

\* C20: in the monthly log the time of the entries with no tag association
\* is compared against the single global daily maximum of config: their
\* per-day difference is the untagged seconds minus the global maximum
\* minutes * 60, and their accumulated total is the sum of these differences.
C20_SinTagContraMaximoGlobal ==
  EsLogs =>
    LET maximo == obtener_horas_maximas(config) * 60
        conSinTag == {f \in DOMAIN resp.vista.resumen : resp.vista.resumen[f].sin_tag # NULL}
    IN /\ \A f \in conSinTag :
            Val(resp.vista.resumen[f].sin_tag).diff
              = Val(resp.vista.resumen[f].sin_tag).total - maximo
       /\ resp.vista.acumulado_sin_tag # NULL =>
            Val(resp.vista.acumulado_sin_tag)
              = Suma([f \in conSinTag |-> Val(resp.vista.resumen[f].sin_tag).total - maximo],
                     conSinTag)

\* the step creates a tag: the form is in req', the new row has id seqTags'
CreaTag == req'.op = "crear" /\ seqTags' = seqTags + 1

\* a text without its leading and trailing blanks
Recortado(text) ==
  LET llenos == {k \in DOMAIN text : text[k] # " "}
  IN IF llenos = {} THEN <<>>
     ELSE SubSeq(text, CHOOSE a \in llenos : \A b \in llenos : a <= b, Max(llenos))

\* every stored tag keeps its name, quotas and color in a step that is not an
\* edit or a recolor of that tag
TagsIntactos ==
  \A id \in DOMAIN tags \cap DOMAIN tags' :
    (req'.op \in {"editar", "color"} /\ req'.id = id) \/ tags'[id] = tags[id]

\* the list of tags shown is the stored rows
ListaFiel == (req'.op = "tags" /\ GetTags) => resp'.vista = tags

\* C16 as stated: creating a tag with a name and seven weekday quota values
\* and then listing the tags returns a tag with that same name, the same
\* seven quota values in Monday..Sunday order and the color assigned at
\* creation (a member of the fixed palette); later operations other than
\* edit/recolor of that tag do not change these values.
C16_MismoNombre ==
  [][/\ CreaTag =>
          /\ tags'[seqTags'].nombre = req'.nombre
          /\ tags'[seqTags'].maximos = req'.maximos
          /\ tags'[seqTags'].color \in Range(PALETA_COLORES)
     /\ TagsIntactos
     /\ ListaFiel]_vars

\* C16 amended: the tag listed after a creation has the submitted name
\* without its leading and trailing blanks, the same seven quota values in
\* Monday..Sunday order and a color of the fixed palette; later operations
\* other than edit/recolor of that tag do not change these values.
C16_NombreRecortado ==
  [][/\ CreaTag =>
          /\ tags'[seqTags'].nombre = Recortado(req'.nombre)
          /\ tags'[seqTags'].maximos = req'.maximos
          /\ tags'[seqTags'].color \in Range(PALETA_COLORES)
     /\ TagsIntactos
     /\ ListaFiel]_vars

\* the list shows tag 1, created as ' Trabajo ' with a quota that depends on
\* the weekday, under the name 'Trabajo' next to a second tag
C16_Witness ==
  /\ req.op = "tags"
  /\ DOMAIN resp.vista = {1, 2}
  /\ resp.vista[1].nombre = Trabajo
  /\ resp.vista[1].maximos = MaximosSemana
  /\ resp.vista[1].color = PALETA_COLORES[1]
  /\ resp.vista[2].nombre = Estudio

\* the step renders a page: GET /, /logs, /settings, /calendar or /tags
EsPagina ==
  \/ req'.op = "get" /\ GetPagina(req'.path)
  \/ req'.op = "tags" /\ GetTags

\* C19: rendering any page (GET /, /logs, /settings, /calendar, /tags)
\* leaves every entry, tag, entry-tag association and config value unchanged.
C19_PaginasSoloLeen ==
  [][EsPagina =>
       /\ registros' = registros
       /\ tags' = tags
       /\ registro_tags' = registro_tags
       /\ config' = config]_vars

\* a page was rendered from a store that holds an entry, a tag, an
\* association and a daily maximum other than the default
C19_Witness ==
  /\ req.op \in {"get", "tags"}
  /\ resp.status = 200
  /\ registros # <<>>
  /\ tags # <<>>
  /\ registro_tags # {}
  /\ config["horas_max_diarias"] = 60

OtrosNombres(id) == {tags[i].nombre : i \in DOMAIN tags \ {id}}

\* C21: tag names are unique after any sequence of tag creates, edits and
\* seeding actions: creating a tag with an existing name, or editing a tag to
\* another tag's name, yields a warning and leaves all tags unchanged.
C21_NombresUnicos ==
  [][ /\ \A i, j \in DOMAIN tags' : (tags'[i].nombre = tags'[j].nombre) => (i = j)
      /\ (req'.op = "crear" /\ Recortado(req'.nombre) \in OtrosNombres(0)) =>
           (resp'.type = "warning" /\ tags' = tags)
      /\ (/\ req'.op = "editar"
          /\ req'.id \in DOMAIN tags
          /\ Recortado(req'.nombre) \in OtrosNombres(req'.id)) =>
           (resp'.type = "warning" /\ tags' = tags)]_vars

\* an edit of tag 1 to the name of tag 2 was answered with the warning
C21_Witness ==
  /\ req.op = "editar"
  /\ req.id = 1
  /\ DOMAIN tags = {1, 2}
  /\ tags[2].nombre = Recortado(req.nombre)
  /\ tags[1].nombre = Trabajo
  /\ resp.message = "Nombre de tag ya utilizado."

\* the step handles a POST /settings that sets the daily maximum
EsSettings == req'.op = "settings" /\ PostSettings(req'.horas, req'.minutos)

\* C22: schema initialization is idempotent: it creates the config row with
\* 450 minutes only when absent, and running it again (it runs at the start
\* of every request) leaves a previously updated daily maximum unchanged, so
\* only an accepted POST /settings changes it; a POST /settings whose total is
\* <= 0 is refused with no change, and the stored daily maximum is always > 0.
C22_MaximoPositivo ==
  [][ /\ inicializar_db(<<>>) = [clave \in {"horas_max_diarias"} |-> 450]
      /\ inicializar_db(config') = config'
      /\ config'["horas_max_diarias"] > 0
      /\ (EsSettings /\ req'.horas * 60 + req'.minutos <= 0) =>
           (resp'.type = "warning" /\ config' = config)
      /\ (EsSettings /\ req'.horas * 60 + req'.minutos > 0) =>
           config'["horas_max_diarias"] = req'.horas * 60 + req'.minutos
      /\ ~EsSettings => config' = config ]_vars

\* a total of 0 was refused while the daily maximum was one set before
C22_Witness ==
  /\ req.op = "settings"
  /\ req.horas * 60 + req.minutos = 0
  /\ resp.type = "warning"
  /\ config["horas_max_diarias"] = 60

\* the form has tags, a start, an end that is a date-time not later than the
\* start, and integer duration fields that sum to a positive value
FinNoPosteriorConCampos(f) ==
  /\ f.tags # <<>>
  /\ f.inicio # <<>> /\ f.inicio[1]
  /\ f.fin # <<>> /\ f.fin[1]
  /\ f.fin[2] <= f.inicio[2]
  /\ CamposEnteros(f)
  /\ Campo(f.horas) * 3600 + Campo(f.minutos) * 60 > 0

\* C23: a manual-entry request whose explicit end is present but not later
\* than its start, and whose duration fields sum to a positive value, falls
\* back to the duration fields: an entry is stored with duration
\* h*3600 + m*60 and end = start + duration.
C23_RecurreALosCampos ==
  [][(EsManual /\ FinNoPosteriorConCampos(req')) =>
         /\ seqRegistros' = seqRegistros + 1
         /\ DOMAIN registros' = DOMAIN registros \cup {seqRegistros'}
         /\ Nuevo.manual = 1
         /\ Nuevo.inicio = Some(req'.inicio[2])
         /\ Nuevo.duracion = Campo(req'.horas) * 3600 + Campo(req'.minutos) * 60
         /\ Nuevo.fin = Some(req'.inicio[2] + Nuevo.duracion * TicksPerSec)]_vars

\* a manual entry with its end equal to its start and 1 h 30 min in the
\* duration fields was stored with 5400 seconds
C23_Witness ==
  /\ req.op = "manual"
  /\ req.fin = req.inicio
  /\ req.fin = <<TRUE, ManualT0>>
  /\ req.horas = <<TRUE, 1>>
  /\ req.minutos = <<TRUE, 30>>
  /\ resp.message = "Entrada registrada."
  /\ \E i \in DOMAIN registros :
       /\ registros[i].duracion = 5400
       /\ registros[i].fin = Some(ManualT0 + Seconds(5400))

\* the cancellation entries dated day d
CancelacionesDe(d) ==
  {i \in DOMAIN registros :
     registros[i].inicio = NULL /\ registros[i].fin = NULL /\ registros[i].fecha = d}

\* the time, in ticks, of the segments the calendar shows on day d of the week
TiempoDelDia(d) ==
  LET evs == {e \in resp.vista.events : e.day = d}
  IN Suma([e \in evs |-> e.duration], evs)

\* C24: a cancellation entry dated D reduces the total the weekly calendar
\* reports for D by its magnitude: the day total is the time of the day's
\* segments less the cancellations dated that day, and the day difference is
\* that total less the daily maximum.
C24_CancelacionEnCalendario ==
  EsCalendario =>
    \A d \in 0..6 :
      LET D == resp.vista.start_of_week + d
          total == TotalSecondsInt(TiempoDelDia(d))
                     + SumaDuracion(registros, CancelacionesDe(D))
      IN /\ resp.vista.summaries[d].total = total
         /\ resp.vista.summaries[d].diferencia
              = total - obtener_horas_maximas(config) * 60

\* the step stores a manual entry or a cancellation
GuardaManualOCancelacion ==
  (EsManual \/ EsCancelar) /\ seqRegistros' = seqRegistros + 1

\* C25: creating a manual entry or a cancellation entry never changes the
\* timer state: if Idle the system stays Idle (a cancellation's null end is
\* not treated as a running timer), and if Running the same entry remains
\* the running one, unchanged.
C25_CronometroIntacto ==
  [][GuardaManualOCancelacion =>
       /\ obtener_registro_activo(registros') = obtener_registro_activo(registros)
       /\ Nuevo.manual = 1
       /\ \A i \in DOMAIN registros : registros'[i] = registros[i]]_vars

\* a cancellation was stored while no timer was running, and none is running
C25_Witness ==
  /\ req.op = "cancelar"
  /\ resp.message = "Cancelacion registrada."
  /\ \E i \in DOMAIN registros : registros[i].fin = NULL /\ registros[i].manual = 1
  /\ \E i \in DOMAIN registros : registros[i].fin # NULL /\ registros[i].manual = 0
  /\ obtener_registro_activo(registros) = NULL

\* C26: after any sequence of operations every entry-tag association refers
\* to a tag that exists: no start, manual or cancellation request associates
\* an entry with a tag id that is not in the tag table, and no tag in use is
\* removed.
C26_TagsExistentes ==
  \A p \in registro_tags : p[2] \in DOMAIN tags

\* the tag ids entry i is associated with
TagsDe(rt, i) == {p[2] : p \in {q \in rt : q[1] = i}}

C28_DuracionCoherente ==
  \A i \in DOMAIN registros :
    /\ (registros[i].inicio # NULL /\ registros[i].fin # NULL) =>
         /\ registros[i].duracion >= 0
         /\ registros[i].duracion * TicksPerSec
              <= Val(registros[i].fin) - Val(registros[i].inicio)
         /\ Val(registros[i].fin) - Val(registros[i].inicio)
              < (registros[i].duracion + 1) * TicksPerSec
    /\ (registros[i].fin = NULL /\ registros[i].manual = 0) =>
         registros[i].duracion = 0

\* a timer stopped a second and a half after its start stands next to a
\* manual entry whose end was given explicitly
C28_Witness ==
  /\ \E i \in DOMAIN registros :
       /\ registros[i].manual = 0 /\ registros[i].fin # NULL
       /\ Val(registros[i].fin) - Val(registros[i].inicio) = Seconds(1) + 1
       /\ registros[i].duracion = 1
  /\ \E j \in DOMAIN registros :
       /\ registros[j].manual = 1 /\ registros[j].inicio # NULL
       /\ Val(registros[j].fin) - Val(registros[j].inicio) = Seconds(1) + 1

\* a timer runs next to a manual entry recorded from the duration fields
C28_WitnessCorriendo ==
  /\ \E i \in DOMAIN registros :
       registros[i].manual = 0 /\ registros[i].fin = NULL
  /\ \E j \in DOMAIN registros :
       /\ registros[j].manual = 1 /\ registros[j].inicio # NULL
       /\ registros[j].duracion = 5400

\* a create, or an edit of a stored tag, whose name is empty once trimmed
NombreVacio ==
  /\ Recortado(req'.nombre) = <<>>
  /\ req'.op = "crear" \/ (req'.op = "editar" /\ req'.id \in DOMAIN tags)

\* C29: every stored tag has a non-empty name after any sequence of create
\* and edit requests; a create or an edit whose name is empty after trimming
\* is answered with a warning and changes no tag.
C29_NombreNoVacio ==
  [][ /\ \A i \in DOMAIN tags' : tags'[i].nombre # <<>>
      /\ (req'.op \in {"crear", "editar"} /\ NombreVacio) =>
           (resp'.type = "warning" /\ tags' = tags) ]_vars

\* the home page was served while no timer runs and every association names
\* a stored tag
EsInicioEnReposo ==
  /\ req.op = "index"
  /\ Activos(registros) = {}
  /\ \A p \in registro_tags : p[2] \in DOMAIN tags

\* C30: with no timer running, the TOTAL the home page shows for today is
\* the sum of the durations of today's entries, each entry counted once,
\* which is the total the monthly log shows for that day, also when an entry
\* has more than one tag.
C30_TotalDeHoy ==
  EsInicioEnReposo =>
    /\ resp.vista.total_hoy = SumaDuracion(registros, DelDia(registros, DateOf(now)))
    /\ \A month \in MesesIn :
         LET resumen == render_logs(registros, tags, registro_tags, month).resumen
         IN DateOf(now) \in DOMAIN resumen =>
              resp.vista.total_hoy = resumen[DateOf(now)].total

====
